---- MODULE Spec2Model ----
(***************************************************************************)
(* Model of melondy/synth/synthesis.py: the Synthesiser with its two       *)
(* memoised methods (strum_strings, _vibrate), the lazy feedback_loop      *)
(* generator pulled by np.fromiter, and _overlay.                          *)
(*                                                                         *)
(* Samples are exact rationals <<n, d>> (d > 0, reduced); <<0, 0>> is NaN. *)
(* Sequences are 1-based; the code's index i is the model's position i+1.  *)
(***************************************************************************)
EXTENDS Integers, Sequences, FiniteSets, TLC

SAMPLING_RATE == 44100

\* ---------------------------------------------------------------- bounds
MaxL == 2          \* longest delay line the frequencies of the model give
MaxN == 4          \* largest sample count of a vibration
MaxDelay == 2      \* largest inter-string delay, in samples
MaxCalls == 2      \* top-level calls made on the Synthesiser in one behaviour
MaxPulls == 4      \* items np.fromiter may pull when its count is negative
MaxSounds == 2     \* sounds handed to one direct _overlay call
MaxLen == 3        \* longest sound handed to a direct _overlay call

\* ------------------------------------------------------------ arithmetic
RECURSIVE GCD(_, _)
GCD(a, b) == IF b = 0 THEN a ELSE GCD(b, a % b)

Abs(n) == IF n < 0 THEN -n ELSE n

NaN == <<0, 0>>
IsNaN(x) == x[2] = 0

Rat(n, d) ==
    IF d = 0 THEN NaN
    ELSE LET s == IF d < 0 THEN -1 ELSE 1
             g == GCD(Abs(n), Abs(d))
         IN  <<(s * n) \div g, (s * d) \div g>>

RAdd(x, y) == IF IsNaN(x) \/ IsNaN(y) THEN NaN
              ELSE Rat(x[1] * y[2] + y[1] * x[2], x[2] * y[2])
RSub(x, y) == IF IsNaN(x) \/ IsNaN(y) THEN NaN
              ELSE Rat(x[1] * y[2] - y[1] * x[2], x[2] * y[2])
RMul(x, y) == IF IsNaN(x) \/ IsNaN(y) THEN NaN
              ELSE Rat(x[1] * y[1], x[2] * y[2])
\* IEEE division as numpy does it on arrays: 0/0 is NaN (a warning, no error).
RDiv(x, y) == IF IsNaN(x) \/ IsNaN(y) \/ y[1] = 0 THEN NaN
              ELSE Rat(x[1] * y[2], x[2] * y[1])
RAbs(x) == <<Abs(x[1]), x[2]>>
RLess(x, y) == x[1] * y[2] < y[1] * x[2]
Zero == <<0, 1>>

\* Python's round(): to the nearest integer, ties to the even one. d > 0.
RoundHalfEven(n, d) ==
    LET q == n \div d
        r == n - q * d
    IN  IF 2 * r < d THEN q
        ELSE IF 2 * r > d THEN q + 1
        ELSE IF q % 2 = 0 THEN q ELSE q + 1

Max2(a, b) == IF a >= b THEN a ELSE b

RECURSIVE SeqSum(_)
SeqSum(s) == IF s = <<>> THEN Zero ELSE RAdd(s[1], SeqSum(Tail(s)))

RECURSIVE SeqPeak(_)
SeqPeak(s) ==
    IF s = <<>> THEN Zero
    ELSE LET p == SeqPeak(Tail(s))
             a == RAbs(s[1])
         IN  IF RLess(a, p) THEN p ELSE a

Min2(a, b) == IF a <= b THEN a ELSE b

\* -------------------------------------------------- collaborators (contracts)
\* Time: seconds as a fraction <<tn, td>>, td > 0.
\* samples = round(duration * sampling_rate)
get_num_samples(time, sampling_rate) ==
    RoundHalfEven(time[1] * sampling_rate, time[2])

\* remove_dc: subtract the mean.
remove_dc(x) ==
    IF x = <<>> THEN x
    ELSE LET mean == RDiv(SeqSum(x), <<Len(x), 1>>)
         IN  [k \in 1..Len(x) |-> RSub(x[k], mean)]

\* normalise: divide by the peak magnitude. An empty waveform has no peak (the
\* reduction fails); an all-zero one divides 0 by 0.
normalise(x) ==
    IF x = <<>> THEN [outcome |-> "ValueError", value |-> <<>>]
    ELSE [outcome |-> "ok",
          value |-> [k \in 1..Len(x) |-> RDiv(x[k], SeqPeak(x))]]

\* The samples one burst may consist of.
BurstVals == {<<-1, 1>>, <<1, 2>>}

\* BurstGenerator: num_samples samples, the same ones whenever it is asked
\* again (table is what its seed fixes); a negative count is refused.
burst_generator(num_samples, table) ==
    IF num_samples < 0 THEN [outcome |-> "ValueError", value |-> <<>>]
    ELSE [outcome |-> "ok", value |-> [k \in 1..num_samples |-> table[k]]]

\* Instrument strokes: a chord is the pair of pitch sequences the strokes yield.
upstroke(chord) == chord.up
downstroke(chord) == chord.down

\* ------------------------------------------------------------- _vibrate
DefaultDamping == <<1, 2>>

\* An optional argument is <<>> when omitted and <<v>> when passed.
ResolveDamping(arg) == IF arg = <<>> THEN DefaultDamping ELSE arg[1]

\* The assertion with its upper bound forgotten: assert 0 < damping
DampingOkNoUpper(damping) == RLess(Zero, damping)

\* assert 0 < damping <= 0.5
DampingOk(damping) == RLess(Zero, damping) /\ ~RLess(<<1, 2>>, damping)

\* round(self.sampling_rate / frequency), frequency # 0
DelayLineLength(sampling_rate, frequency) ==
    IF frequency > 0 THEN RoundHalfEven(sampling_rate, frequency)
    ELSE RoundHalfEven(-sampling_rate, -frequency)

\* The update with the next cell's index clamped to the last cell, not wrapped.
FeedbackUpdateClamped(buffer, i, damping) ==
    LET current_sample == buffer[i + 1]
        next_sample == buffer[Min2(i + 1, Len(buffer) - 1) + 1]
    IN  [buffer EXCEPT ![i + 1] = RMul(RAdd(current_sample, next_sample), damping)]

\* The update without the damping factor.
FeedbackUpdateUndamped(buffer, i, damping) ==
    LET current_sample == buffer[i + 1]
        next_sample == buffer[((i + 1) % Len(buffer)) + 1]
    IN  [buffer EXCEPT ![i + 1] = RAdd(current_sample, next_sample)]

\* The update written to the cell after the cursor.
FeedbackUpdateAhead(buffer, i, damping) ==
    LET current_sample == buffer[i + 1]
        next_sample == buffer[((i + 1) % Len(buffer)) + 1]
    IN  [buffer EXCEPT ![((i + 1) % Len(buffer)) + 1] =
             RMul(RAdd(current_sample, next_sample), damping)]

\* buffer[i] = (current_sample + next_sample) * damping   (i is 0-based)
FeedbackUpdate(buffer, i, damping) ==
    LET current_sample == buffer[i + 1]
        next_sample == buffer[((i + 1) % Len(buffer)) + 1]
    IN  [buffer EXCEPT ![i + 1] = RMul(RAdd(current_sample, next_sample), damping)]

\* normalise(remove_dc(raw))
PostProcess(raw) == normalise(remove_dc(raw))

\* ------------------------------------------------------------- _overlay
\* One bound of a Python slice on a sequence of n items.
SliceBound(k, n) == IF k < 0 THEN Max2(k + n, 0) ELSE Min2(k, n)

\* The slice assigned instead of added to: samples[offset : ...] = sound
OverlayAssign(samples, sound, offset) ==
    LET n == Len(samples)
        a == SliceBound(offset, n)
        b == SliceBound(offset + Len(sound), n)
        m == Max2(b - a, 0)
    IN  IF Len(sound) = m \/ Len(sound) = 1
        THEN [outcome |-> "ok",
              value |-> [k \in 1..n |->
                           IF a < k /\ k <= a + m
                           THEN sound[IF Len(sound) = m THEN k - a ELSE 1]
                           ELSE samples[k]]]
        ELSE [outcome |-> "ValueError", value |-> <<>>]

\* samples[offset : offset + sound.size] += sound
OverlayAdd(samples, sound, offset) ==
    LET n == Len(samples)
        a == SliceBound(offset, n)
        b == SliceBound(offset + Len(sound), n)
        m == Max2(b - a, 0)
    IN  IF Len(sound) = m
        THEN [outcome |-> "ok",
              value |-> [k \in 1..n |->
                           IF a < k /\ k <= a + m
                           THEN RAdd(samples[k], sound[k - a]) ELSE samples[k]]]
        ELSE IF Len(sound) = 1
        THEN [outcome |-> "ok",
              value |-> [k \in 1..n |->
                           IF a < k /\ k <= a + m
                           THEN RAdd(samples[k], sound[1]) ELSE samples[k]]]
        ELSE [outcome |-> "ValueError", value |-> <<>>]

\* Arrays are objects: refs names the array each sound is, heap holds the
\* arrays' samples. target is 0 for an output buffer that is an array of its
\* own, or the position in refs of the sound the buffer is.

\* The first sound taken as the buffer when it has the output's length.
OutputBufferReuseFirst(refs, heap, num_samples) ==
    IF Len(heap[refs[1]]) = num_samples
    THEN [target |-> 1, samples |-> heap[refs[1]]]
    ELSE [target |-> 0, samples |-> [k \in 1..num_samples |-> Zero]]

\* samples = np.zeros(num_samples, dtype=np.float64)
OutputBuffer(refs, heap, num_samples) ==
    [target |-> 0, samples |-> [k \in 1..num_samples |-> Zero]]

\* for i, sound in enumerate(sounds): ...   (from index i on)
\* A sound that is the buffer itself is read as the buffer stands.
RECURSIVE OverlayLoop(_, _, _, _, _, _)
OverlayLoop(samples, target, refs, heap, num_delay_samples, i) ==
    IF i >= Len(refs)
    THEN [outcome |-> "ok", value |-> samples,
          heap |-> IF target = 0 THEN heap
                   ELSE [heap EXCEPT ![refs[target]] = samples]]
    ELSE LET sound == IF target # 0 /\ refs[i + 1] = refs[target] THEN samples
                      ELSE heap[refs[i + 1]]
             r == OverlayAdd(samples, sound, i * num_delay_samples)
         IN  IF r.outcome # "ok"
             THEN [outcome |-> r.outcome, value |-> <<>>,
                   heap |-> IF target = 0 THEN heap
                            ELSE [heap EXCEPT ![refs[target]] = samples]]
             ELSE OverlayLoop(r.value, target, refs, heap, num_delay_samples,
                              i + 1)

\* max(i * num_delay_samples + sound.size for i, sound in enumerate(sounds))
RECURSIVE MaxOf(_)
MaxOf(S) == LET x == CHOOSE y \in S : TRUE
            IN  IF S = {x} THEN x ELSE Max2(x, MaxOf(S \ {x}))

\* The length taken from the last-starting sound alone.
NumSamplesLastOnly(sounds, num_delay_samples) ==
    (Len(sounds) - 1) * num_delay_samples + Len(sounds[Len(sounds)])

\* The length with enumerate counting from 1.
NumSamplesFromOne(sounds, num_delay_samples) ==
    MaxOf({i * num_delay_samples + Len(sounds[i]) : i \in 1..Len(sounds)})

NumSamples(sounds, num_delay_samples) ==
    MaxOf({(i - 1) * num_delay_samples + Len(sounds[i]) : i \in 1..Len(sounds)})

\* _overlay on the arrays refs names; the result also tells what the heap
\* holds when the call ends.
overlay_arrays(refs, heap, delay, sampling_rate) ==
    LET num_delay_samples == get_num_samples(delay, sampling_rate)
        sounds == [i \in 1..Len(refs) |-> heap[refs[i]]]
    IN  IF refs = <<>>
        THEN [outcome |-> "ValueError", value |-> <<>>, heap |-> heap]
        ELSE LET buffer == OutputBuffer(refs, heap,
                                        NumSamples(sounds, num_delay_samples))
             IN  OverlayLoop(buffer.samples, buffer.target, refs, heap,
                             num_delay_samples, 0)

\* _overlay on sounds that are arrays of their own.
overlay(sounds, delay, sampling_rate) ==
    overlay_arrays([i \in 1..Len(sounds) |-> i], sounds, delay, sampling_rate)

\* ------------------------------------------------------------ the inputs
Time(t) == <<t, SAMPLING_RATE>>
None == <<>>

Reverse(s) == [k \in 1..Len(s) |-> s[Len(s) + 1 - k]]

\* Frequencies: negative, zero, too high for a delay line (L = 0), and one
\* for every delay-line length 1..MaxL.
Freqs == {-SAMPLING_RATE, 0, 2 * SAMPLING_RATE}
         \cup {SAMPLING_RATE \div l : l \in 1..MaxL}
Durations == {Time(t) : t \in -1..MaxN}
Dampings == {Rat(k, 4) : k \in -1..3}
DampArgs == {<<>>} \cup {<<d>> : d \in Dampings}
NoiseTables == [1..MaxL -> BurstVals]

\* --------------------------------------------------------------- state
VARIABLES
    noise,       \* the burst source's samples (fixed by its seed)
    instrument,  \* the instrument's damping and default vibration
    vcache,      \* functools.cache of _vibrate: call arguments -> waveform
    scache,      \* functools.cache of strum_strings
    pc,          \* "idle", "fromiter" (in np.fromiter), "strum" (between pitches)
    vib,         \* the running _vibrate call and its feedback_loop generator
    strum,       \* the running strum_strings call
    ret,         \* how the last top-level call ended
    ncalls,      \* top-level calls made
    runs,        \* (frequency, duration, damping) -> feedback loops started
    overlays,    \* (chord, velocity, vibration) -> _overlay calls made for it
    drawn,       \* bursts drawn during the current top-level call
    steps        \* buffer updates executed during the current top-level call

vars == <<noise, instrument, vcache, scache, pc, vib, strum, ret, ncalls,
          runs, overlays, drawn, steps>>

NoVib == [key |-> <<>>, frequency |-> 0, N |-> 0, damping |-> Zero,
          gen |-> "none", buffer |-> <<>>, i |-> 0, out |-> <<>>]
NoStrum == [active |-> FALSE, key |-> <<>>, vibration |-> None,
            pitches |-> <<>>, delay |-> None, sounds |-> <<>>]
NoRet == [op |-> "none", args |-> <<>>, outcome |-> "none", value |-> <<>>]

Bump(fn, k) == IF k \in DOMAIN fn THEN [fn EXCEPT ![k] = @ + 1]
               ELSE fn @@ (k :> 1)
Store(fn, k, v) == IF k \in DOMAIN fn THEN [fn EXCEPT ![k] = v]
                   ELSE fn @@ (k :> v)

\* A cache wrapper that keeps an entry for a call that raised as well.
CacheResultAlways(cache, key, r) == Store(cache, key, r.value)

\* @cache: the wrapper stores what the call returns; a call that raises
\* stores nothing.
CacheResult(cache, key, r) ==
    IF r.outcome = "ok" THEN Store(cache, key, r.value) ELSE cache

Instruments == {[damping |-> <<1, 4>>, vibration |-> Time(MaxN)]}

Setup(tables) ==
    /\ noise \in tables
    /\ instrument \in Instruments
    /\ vcache = <<>>
    /\ scache = <<>>
    /\ pc = "idle"
    /\ vib = NoVib
    /\ strum = NoStrum
    /\ ret = NoRet
    /\ ncalls = 0
    /\ runs = <<>>
    /\ overlays = <<>>
    /\ drawn = 0
    /\ steps = 0

\* ---------------------------------------------------------- _vibrate
\* A _vibrate call ends: control goes back to strum_strings' generator
\* expression, or to the top-level caller. An exception passes through
\* strum_strings, which stores nothing.
ReturnVibrate(key, outcome, value) ==
    IF strum.active
    THEN IF outcome = "ok"
         THEN /\ strum' = [strum EXCEPT !.sounds = Append(@, value)]
              /\ pc' = "strum"
              /\ ret' = ret
         ELSE /\ strum' = NoStrum
              /\ pc' = "idle"
              /\ ret' = [op |-> "strum", args |-> strum.key,
                         outcome |-> outcome, value |-> <<>>]
    ELSE /\ strum' = strum
         /\ pc' = "idle"
         /\ ret' = [op |-> "vibrate", args |-> key,
                    outcome |-> outcome, value |-> value]

\* The cache wrapper and the body of _vibrate up to the np.fromiter call.
\* key is the argument tuple as passed: (frequency, duration[, damping]).
EnterVibrate(key) ==
    LET damping == ResolveDamping(SubSeq(key, 3, Len(key)))
    IN  IF key \in DOMAIN vcache
        THEN /\ ReturnVibrate(key, "ok", vcache[key])
             /\ vib' = NoVib
        ELSE IF ~DampingOk(damping)
        THEN /\ ReturnVibrate(key, "AssertionError", <<>>)
             /\ vib' = NoVib
        ELSE /\ vib' = [key |-> key, frequency |-> key[1],
                        N |-> get_num_samples(key[2], SAMPLING_RATE),
                        damping |-> damping, gen |-> "unstarted",
                        buffer |-> <<>>, i |-> 0, out |-> <<>>]
             /\ pc' = "fromiter"
             /\ UNCHANGED <<strum, ret>>

CallVibrate(frequency, duration, arg) ==
    /\ pc = "idle"
    /\ ncalls < MaxCalls
    /\ ncalls' = ncalls + 1
    /\ drawn' = 0
    /\ steps' = 0
    /\ EnterVibrate(<<frequency, duration>> \o arg)
    /\ UNCHANGED <<noise, instrument, vcache, scache, runs, overlays>>

\* np.fromiter has its count of items (N >= 0): post-process, store, return.
FromIterDone ==
    /\ pc = "fromiter"
    /\ Len(vib.out) = vib.N
    /\ LET r == PostProcess(vib.out)
       IN  /\ vcache' = CacheResult(vcache, vib.key, r)
           /\ ReturnVibrate(vib.key, r.outcome, r.value)
    /\ vib' = NoVib
    /\ UNCHANGED <<noise, instrument, scache, ncalls, runs, overlays, drawn, steps>>

\* The first pull: the generator body starts, the burst is drawn, the cycle
\* yields buffer[0]. With no sample to cycle over the generator is exhausted.
GenStart ==
    /\ pc = "fromiter"
    /\ vib.gen = "unstarted"
    /\ vib.N # 0
    /\ IF vib.frequency = 0
       THEN /\ ReturnVibrate(vib.key, "ZeroDivisionError", <<>>)
            /\ vib' = NoVib
            /\ UNCHANGED <<vcache, runs, drawn>>
       ELSE LET L == DelayLineLength(SAMPLING_RATE, vib.frequency)
                b == burst_generator(L, noise)
            IN  IF b.outcome # "ok"
                THEN /\ ReturnVibrate(vib.key, b.outcome, <<>>)
                     /\ vib' = NoVib
                     /\ UNCHANGED <<vcache, runs, drawn>>
                ELSE /\ drawn' = drawn + 1
                     /\ runs' = IF L = 0 THEN runs
                                ELSE Bump(runs, <<vib.frequency, vib.key[2],
                                                  vib.damping>>)
                     /\ IF L = 0
                        THEN LET r == IF vib.N > 0
                                      THEN [outcome |-> "ValueError", value |-> <<>>]
                                      ELSE PostProcess(<<>>)
                             IN  /\ vcache' = CacheResult(vcache, vib.key, r)
                                 /\ ReturnVibrate(vib.key, r.outcome, r.value)
                                 /\ vib' = NoVib
                        ELSE /\ vib' = [vib EXCEPT !.gen = "suspended",
                                                   !.buffer = b.value, !.i = 0,
                                                   !.out = <<b.value[1]>>]
                             /\ UNCHANGED <<vcache, pc, strum, ret>>
    /\ UNCHANGED <<noise, instrument, scache, ncalls, overlays, steps>>

\* A later pull: the generator resumes after its yield, updates buffer[i],
\* takes the next i of the cycle and yields buffer[i].
GenResume ==
    /\ pc = "fromiter"
    /\ vib.gen = "suspended"
    /\ Len(vib.out) < (IF vib.N >= 0 THEN vib.N ELSE MaxPulls)
    /\ LET buffer == FeedbackUpdate(vib.buffer, vib.i, vib.damping)
           i == (vib.i + 1) % Len(buffer)
       IN  vib' = [vib EXCEPT !.buffer = buffer, !.i = i,
                              !.out = Append(@, buffer[i + 1])]
    /\ steps' = steps + 1
    /\ UNCHANGED <<noise, instrument, vcache, scache, pc, strum, ret, ncalls,
                   runs, overlays, drawn>>

\* ------------------------------------------------------ strum_strings
\* if vibration is None: vibration = self.instrument.vibration
\* (an omitted argument takes the default None)
GivenVibration(arg) == IF arg = <<>> THEN None ELSE arg[1]
ResolveVibration(arg, default) ==
    IF GivenVibration(arg) = None THEN default ELSE GivenVibration(arg)

\* The two strokes taken for each other.
StrokeForSwapped(direction, chord) ==
    IF direction = "UP" THEN downstroke(chord) ELSE upstroke(chord)

\* The stroke function the direction selects, applied to the chord.
StrokeFor(direction, chord) ==
    IF direction = "UP" THEN upstroke(chord) ELSE downstroke(chord)

\* The cache wrapper and the body of strum_strings up to the first pitch.
\* The key is the argument tuple as passed: (chord, velocity[, vibration]).
CallStrum(chord, velocity, arg) ==
    /\ pc = "idle"
    /\ ncalls < MaxCalls
    /\ ncalls' = ncalls + 1
    /\ drawn' = 0
    /\ steps' = 0
    /\ LET key == <<chord, velocity>> \o arg
           vibration == ResolveVibration(arg, instrument.vibration)
           pitches == StrokeFor(velocity.direction, chord)
       IN  IF key \in DOMAIN scache
           THEN /\ ret' = [op |-> "strum", args |-> key, outcome |-> "ok",
                           value |-> scache[key]]
                /\ UNCHANGED <<pc, strum>>
           ELSE /\ strum' = [active |-> TRUE, key |-> key,
                             vibration |-> vibration, pitches |-> pitches,
                             delay |-> velocity.delay, sounds |-> <<>>]
                /\ pc' = "strum"
                /\ ret' = ret
    /\ UNCHANGED <<noise, instrument, vcache, scache, vib, runs, overlays>>

\* The generator expression takes its next pitch and calls _vibrate.
StrumVibrate ==
    /\ pc = "strum"
    /\ Len(strum.sounds) < Len(strum.pitches)
    /\ EnterVibrate(<<strum.pitches[Len(strum.sounds) + 1], strum.vibration,
                      instrument.damping>>)
    /\ UNCHANGED <<noise, instrument, vcache, scache, ncalls, runs, overlays,
                   drawn, steps>>

\* Every pitch has its sound: return self._overlay(sounds, velocity.delay).
\* The sounds are the arrays the _vibrate cache holds.
StrumOverlay ==
    /\ pc = "strum"
    /\ Len(strum.sounds) = Len(strum.pitches)
    /\ LET refs == [i \in 1..Len(strum.pitches) |->
                       <<strum.pitches[i], strum.vibration, instrument.damping>>]
           r == overlay_arrays(refs, vcache, strum.delay, SAMPLING_RATE)
       IN  /\ scache' = CacheResult(scache, strum.key, r)
           /\ vcache' = r.heap
           /\ ret' = [op |-> "strum", args |-> strum.key,
                      outcome |-> r.outcome, value |-> r.value]
    /\ overlays' = Bump(overlays, <<strum.key[1], strum.key[2],
                                    GivenVibration(SubSeq(strum.key, 3,
                                                          Len(strum.key)))>>)
    /\ strum' = NoStrum
    /\ pc' = "idle"
    /\ UNCHANGED <<noise, instrument, vib, ncalls, runs, drawn, steps>>

\* A direct call of _overlay (not memoised).
CallOverlay(sounds, delay) ==
    /\ pc = "idle"
    /\ ncalls < MaxCalls
    /\ ncalls' = ncalls + 1
    /\ drawn' = 0
    /\ steps' = 0
    /\ LET r == overlay(sounds, delay, SAMPLING_RATE)
       IN  ret' = [op |-> "overlay", args |-> <<sounds, delay>>,
                   outcome |-> r.outcome, value |-> r.value]
    /\ UNCHANGED <<noise, instrument, vcache, scache, pc, vib, strum, runs,
                   overlays>>

\* ----------------------------------------------------- specifications
\* A session: up to MaxCalls calls of _vibrate and strum_strings on one
\* Synthesiser, sharing its two caches.
StringA == SAMPLING_RATE \div MaxL
StringB == SAMPLING_RATE
StringF == 2 * SAMPLING_RATE
Strokes == {<<>>, <<StringA, StringA>>, <<StringA, StringB>>, <<StringB, StringF>>}
Chords == {[down |-> s, up |-> Reverse(s)] : s \in Strokes}
Velocities == [direction : {"UP", "DOWN"}, delay : {Time(0), Time(1)}]
VibArgs == {<<>>, <<None>>, <<Time(1)>>, <<Time(MaxN)>>}
SessionFreqs == {StringA, StringF}
SessionDampArgs == {<<>>, <<<<1, 4>>>>, <<<<1, 2>>>>, <<<<3, 4>>>>}
AltNoise == [k \in 1..MaxL |-> IF k % 2 = 1 THEN <<-1, 1>> ELSE <<1, 2>>]

Init == Setup({AltNoise})

Next ==
    \/ \E f \in SessionFreqs, arg \in SessionDampArgs :
          CallVibrate(f, Time(MaxN), arg)
    \/ \E chord \in Chords, velocity \in Velocities, arg \in VibArgs :
          CallStrum(chord, velocity, arg)
    \/ StrumVibrate
    \/ StrumOverlay
    \/ GenStart
    \/ GenResume
    \/ FromIterDone

Spec == Init /\ [][Next]_vars

\* One direct _vibrate call on a fresh Synthesiser, over every input.
InitVibrate == Setup(NoiseTables)

NextVibrate ==
    \/ \E f \in Freqs, duration \in Durations, arg \in DampArgs :
          ncalls = 0 /\ CallVibrate(f, duration, arg)
    \/ GenStart
    \/ GenResume
    \/ FromIterDone

SpecVibrate == InitVibrate /\ [][NextVibrate]_vars

\* One direct _overlay call, over sounds of every length and every delay of
\* zero or more samples.
\* Each sound is a ramp from one of two bases, so that no two positions of a
\* sound, and no two sounds of a length, hold the same sample.
Bases == {0, 10}
Ramp(n, base) == [k \in 1..n |-> <<base + k, 1>>]
Waveforms == {Ramp(n, base) : n \in 0..MaxLen, base \in Bases}
SoundSeqs == UNION {[1..n -> Waveforms] : n \in 0..MaxSounds}
Delays == {Time(d) : d \in 0..MaxDelay}

NextOverlay ==
    \E sounds \in SoundSeqs, delay \in Delays :
        ncalls = 0 /\ CallOverlay(sounds, delay)

SpecOverlay == Init /\ [][NextOverlay]_vars

\* ----------------------------------------------------------- the claims
\* The arguments of the _vibrate call that ended last.
RetFrequency == ret.args[1]
RetDuration == ret.args[2]
RetDamping == ResolveDamping(SubSeq(ret.args, 3, Len(ret.args)))
RetN == get_num_samples(RetDuration, SAMPLING_RATE)

\* damping <= 0 or damping > 0.5, for a fraction <<n, d>> with d > 0
InvalidDamping(damping) == damping[1] <= 0 \/ 2 * damping[1] > damping[2]

\* C1: a _vibrate call with damping in (0, 0.5], a positive frequency and a
\* duration of N >= 1 samples returns a waveform of exactly N samples, whatever
\* the delay-line length L = round(sampling_rate / frequency) is.
C1_VibrateReturnsNSamples ==
    (/\ ret.op = "vibrate"
     /\ ~InvalidDamping(RetDamping)
     /\ RetFrequency > 0
     /\ RetN >= 1)
    => (ret.outcome = "ok" /\ Len(ret.value) = RetN)

\* C2: a _vibrate call with damping <= 0 or damping > 0.5 fails (the assertion)
\* and returns no waveform, and it fails before the burst is drawn and before
\* any buffer update: np.fromiter is never entered with such a damping.
C2_InvalidDampingFailsFast ==
    /\ (ret.op = "vibrate" /\ InvalidDamping(RetDamping))
       => (/\ ret.outcome = "AssertionError"
           /\ ret.value = <<>>
           /\ drawn = 0
           /\ steps = 0)
    /\ (pc = "fromiter" => ~InvalidDamping(vib.damping))

\* C2 witness: a call that would otherwise have run (positive frequency with a
\* delay line, N >= 1) was refused for its damping above 0.5.
C2_Witness ==
    /\ ret.op = "vibrate"
    /\ RLess(<<1, 2>>, RetDamping)
    /\ RetFrequency > 0
    /\ DelayLineLength(SAMPLING_RATE, RetFrequency) >= 1
    /\ RetN >= 1
    /\ ret.outcome = "AssertionError"

\* C3: a _vibrate call with a non-positive frequency, or with a duration of
\* zero or fewer samples, fails at once: it returns no waveform, draws no
\* burst and never runs the recurrence.
C3_NonPositiveInputsFail ==
    /\ (ret.op = "vibrate" /\ (RetFrequency <= 0 \/ RetN <= 0))
       => (ret.outcome # "ok" /\ drawn = 0 /\ steps = 0)
    /\ (pc = "fromiter" /\ (vib.frequency <= 0 \/ vib.N <= 0))
       => vib.gen = "unstarted"

\* The arguments of the _overlay call that ended last.
RetSounds == ret.args[1]
RetDelay == get_num_samples(ret.args[2], SAMPLING_RATE)

\* The pitches a strum_strings call with the argument tuple args sounds.
StrumPitches(args) == StrokeFor(args[2].direction, args[1])

\* C4: _overlay on an empty sequence of sounds, and strum_strings on a chord
\* whose stroke yields no pitch, return an empty waveform and do not fail.
C4_EmptyStrumIsEmptyWaveform ==
    (\/ ret.op = "overlay" /\ RetSounds = <<>>
     \/ ret.op = "strum" /\ StrumPitches(ret.args) = <<>>)
    => (ret.outcome = "ok" /\ ret.value = <<>>)

\* Where sound i (1-based) ends in the output: its offset plus its length.
EndOf(sounds, d, i) == (i - 1) * d + Len(sounds[i])

\* C5: for a non-empty sequence of sounds and a delay of d >= 0 samples,
\* _overlay returns a waveform whose length is max over i of
\* (i * d + len(sounds[i])): no sound ends after it and one ends exactly there.
C5_OverlayLength ==
    (ret.op = "overlay" /\ RetSounds # <<>> /\ RetDelay >= 0)
    => /\ ret.outcome = "ok"
       /\ \A i \in 1..Len(RetSounds) :
             EndOf(RetSounds, RetDelay, i) <= Len(ret.value)
       /\ \E i \in 1..Len(RetSounds) :
             EndOf(RetSounds, RetDelay, i) = Len(ret.value)

\* C5 witness: lengths are not monotonic; the first sound ends after the
\* last-starting, non-empty one.
C5_Witness ==
    /\ ret.op = "overlay"
    /\ ret.outcome = "ok"
    /\ Len(RetSounds) = 2
    /\ RetDelay >= 1
    /\ Len(RetSounds[2]) >= 1
    /\ Len(RetSounds[1]) > RetDelay + Len(RetSounds[2])
    /\ Len(ret.value) = Len(RetSounds[1])

\* The sum of the samples that sounds i..Len(sounds) place at output
\* position k (1-based), 0 where none covers it.
RECURSIVE MixAt(_, _, _, _)
MixAt(sounds, d, k, i) ==
    IF i > Len(sounds) THEN Zero
    ELSE LET j == k - (i - 1) * d
         IN  RAdd(IF 1 <= j /\ j <= Len(sounds[i]) THEN sounds[i][j] ELSE Zero,
                  MixAt(sounds, d, k, i + 1))

\* C6: _overlay is a pure additive mix: every output sample
\* is the sum of the samples of the sounds covering that position, 0 where no
\* sound covers it. With two sounds and d > 0 the output starts with w0
\* unmodified up to min(d, len(w0)), and output[d : d + len(w1)] is w1 plus
\* the overlapping part of w0.
C6_OverlayIsAdditiveMix ==
    (ret.op = "overlay" /\ ret.outcome = "ok")
    => /\ \A k \in 1..Len(ret.value) :
             ret.value[k] = MixAt(RetSounds, RetDelay, k, 1)
       /\ (Len(RetSounds) = 2 /\ RetDelay > 0)
          => LET w0 == RetSounds[1]
                 w1 == RetSounds[2]
             IN  /\ \A k \in 1..Min2(RetDelay, Len(w0)) : ret.value[k] = w0[k]
                 /\ \A j \in 1..Len(w1) :
                       ret.value[RetDelay + j] =
                          RAdd(w1[j], IF RetDelay + j <= Len(w0)
                                      THEN w0[RetDelay + j] ELSE Zero)

\* C6 witness: two sounds, d > 0, the second one overlapping the first.
C6_Witness ==
    /\ ret.op = "overlay"
    /\ ret.outcome = "ok"
    /\ Len(RetSounds) = 2
    /\ RetDelay >= 1
    /\ Len(RetSounds[2]) >= 1
    /\ Len(RetSounds[1]) > RetDelay
    /\ ret.value[RetDelay + 1] = RAdd(RetSounds[1][RetDelay + 1], RetSounds[2][1])

\* C7: _overlay of a single waveform w returns w, sample for sample and of
\* the same length, whatever the delay.
C7_SingleSoundIgnoresDelay ==
    (ret.op = "overlay" /\ Len(RetSounds) = 1)
    => (ret.outcome = "ok" /\ ret.value = RetSounds[1])

\* C7 witness: a single sound of two or more samples overlaid with a
\* non-zero delay.
C7_Witness ==
    /\ ret.op = "overlay"
    /\ ret.outcome = "ok"
    /\ Len(RetSounds) = 1
    /\ Len(RetSounds[1]) >= 2
    /\ RetDelay # 0
    /\ ret.value = RetSounds[1]

\* C8: over any sequence of calls the feedback recurrence is started at most
\* once for each (frequency, duration, damping); every later call with the
\* same three values is answered from the cache.
C8_RecurrenceOncePerKey ==
    \A k \in DOMAIN runs : runs[k] <= 1

\* C9: over any sequence of calls _overlay is invoked at most once for each
\* (chord, velocity, vibration) strum_strings is called with.
C9_OverlayOncePerStrum ==
    \A k \in DOMAIN overlays : overlays[k] <= 1

\* C10: a strum_strings call that returns, returns _overlay(sounds, delay)
\* where sounds[i] is what _vibrate gives for (p_i.frequency, v, instrument
\* damping), p the upstroke's pitches when the direction is UP and the
\* downstroke's otherwise, in that order, and v the vibration passed or else
\* the instrument's; with k pitches, a vibration of N samples and a delay of
\* d samples the result has (k - 1) * d + N samples.
C10_StrumIsOverlayOfVibrations ==
    (ret.op = "strum" /\ ret.outcome = "ok")
    => LET chord == ret.args[1]
           velocity == ret.args[2]
           given == IF Len(ret.args) = 2 THEN None ELSE ret.args[3]
           v == IF given = None THEN instrument.vibration ELSE given
           p == IF velocity.direction = "UP" THEN upstroke(chord)
                ELSE downstroke(chord)
           k == Len(p)
           sounds == [i \in 1..k |-> vcache[<<p[i], v, instrument.damping>>]]
           N == get_num_samples(v, SAMPLING_RATE)
           d == get_num_samples(velocity.delay, SAMPLING_RATE)
       IN  /\ \A i \in 1..k : <<p[i], v, instrument.damping>> \in DOMAIN vcache
           /\ ret.value = overlay(sounds, velocity.delay, SAMPLING_RATE).value
           /\ Len(ret.value) = (k - 1) * d + N

\* C10 witness: an upstroke over two different pitches with a delay of at
\* least one sample and the instrument's default vibration has returned.
C10_Witness ==
    /\ ret.op = "strum"
    /\ ret.outcome = "ok"
    /\ Len(ret.args) = 2
    /\ ret.args[2].direction = "UP"
    /\ Len(upstroke(ret.args[1])) = 2
    /\ upstroke(ret.args[1])[1] # upstroke(ret.args[1])[2]
    /\ get_num_samples(ret.args[2].delay, SAMPLING_RATE) >= 1
    /\ Len(ret.value) = get_num_samples(ret.args[2].delay, SAMPLING_RATE)
                        + get_num_samples(instrument.vibration, SAMPLING_RATE)

\* C11: no step of the Synthesiser modifies a waveform once it is stored in a
\* cache: every entry of the per-string cache and of the strum cache keeps
\* the samples it was stored with, also across an _overlay that is handed
\* the same cached waveform at two positions.
C11_CachedWaveformsNeverChange ==
    [][/\ \A k \in DOMAIN vcache :
             k \in DOMAIN vcache' /\ vcache'[k] = vcache[k]
       /\ \A k \in DOMAIN scache :
             k \in DOMAIN scache' /\ scache'[k] = scache[k]]_vars

\* C11 witness: a strum over one pitch sounded twice has returned, its
\* _overlay having been handed the one cached waveform at both positions.
C11_Witness ==
    /\ ret.op = "strum"
    /\ ret.outcome = "ok"
    /\ Len(StrumPitches(ret.args)) = 2
    /\ StrumPitches(ret.args)[1] = StrumPitches(ret.args)[2]
    /\ \E k \in DOMAIN vcache : k[1] = StrumPitches(ret.args)[1]

\* The delay line length of the call in progress.
VibL == DelayLineLength(SAMPLING_RATE, vib.frequency)

\* C12: ring-buffer step invariant. While the feedback loop is suspended at
\* its yield the buffer has exactly L cells, the cursor i is in [0, L) and the
\* sample last emitted is buffer[i], not yet overwritten; resuming it sets
\* buffer[i] to damping * (old buffer[i] + buffer[(i+1) mod L]), leaves every
\* other cell unchanged, advances i to (i+1) mod L and emits the cell there.
C12_RingBufferStep ==
    /\ [](vib.gen = "suspended" =>
            /\ Len(vib.buffer) = VibL
            /\ vib.i \in 0..(VibL - 1)
            /\ vib.out # <<>>
            /\ vib.out[Len(vib.out)] = vib.buffer[vib.i + 1])
    /\ [][steps' # steps =>
            /\ vib.gen = "suspended" /\ vib'.gen = "suspended"
            /\ Len(vib'.buffer) = Len(vib.buffer)
            /\ vib'.buffer[vib.i + 1] =
                   RMul(vib.damping,
                        RAdd(vib.buffer[vib.i + 1],
                             vib.buffer[((vib.i + 1) % VibL) + 1]))
            /\ \A j \in 1..Len(vib.buffer) :
                   j # vib.i + 1 => vib'.buffer[j] = vib.buffer[j]
            /\ vib'.i = (vib.i + 1) % VibL
            /\ vib'.out = Append(vib.out, vib'.buffer[vib'.i + 1])]_vars

\* C12 witness: a two-cell ring has been stepped around to its first cell.
C12_Witness ==
    /\ vib.gen = "suspended"
    /\ Len(vib.buffer) = 2
    /\ Len(vib.out) = 3
    /\ vib.i = 0

\* The initial burst of the call in progress and its peak magnitude.
VibBurst == [k \in 1..VibL |-> noise[k]]
BurstPeak == SeqPeak(VibBurst)

\* C13: stability of the recurrence. No recurrence step increases the peak
\* magnitude of the buffer, and every raw output sample has magnitude at
\* most the peak magnitude of the initial burst.
C13_PeakNeverIncreases ==
    /\ [](vib.gen = "suspended" =>
            \A n \in 1..Len(vib.out) :
                ~RLess(BurstPeak, RAbs(vib.out[n])))
    /\ [][steps' # steps =>
            ~RLess(SeqPeak(vib.buffer), SeqPeak(vib'.buffer))]_vars

\* C13 witness: the recurrence has been stepped past the burst and the
\* buffer's peak has fallen below the burst's.
C13_Witness ==
    /\ vib.gen = "suspended"
    /\ Len(vib.out) > VibL
    /\ steps >= 2
    /\ RLess(SeqPeak(vib.buffer), BurstPeak)

\* C14: every _vibrate call runs to completion, the recurrence being stepped
\* exactly N = duration.get_num_samples(sampling_rate) times: at no point
\* has the feedback loop emitted more than N samples.
C14_SteppedAtMostN ==
    vib.gen = "suspended" => Len(vib.out) <= vib.N

\* C15: the in-place ring buffer computes the closed-form Karplus-Strong
\* recurrence. For L >= 2, with b the initial burst and y the raw output,
\* y[n] = b[n] for 0 <= n < L and y[n] = damping * (y[n-L] + y[n-L+1]) for
\* every n >= L, the samples written at the wrap-around step i = L-1 included.
\* (Sequences are 1-based: out[n] is y[n-1].)
C15_ClosedFormRecurrence ==
    (vib.gen = "suspended" /\ VibL >= 2) =>
        \A n \in 1..Len(vib.out) :
            vib.out[n] =
                IF n <= VibL THEN VibBurst[n]
                ELSE RMul(vib.damping,
                          RAdd(vib.out[n - VibL], vib.out[n - VibL + 1]))

\* C15 witness: a call for MaxN samples on a two-cell ring has emitted the
\* sample written at the wrap-around step, y[3] = damping * (y[1] + y[2]).
C15_Witness ==
    /\ vib.gen = "suspended"
    /\ VibL = 2
    /\ vib.N = MaxN
    /\ Len(vib.out) = 2 * VibL
    /\ vib.i = VibL - 1

\* The raw output of n pulls of the feedback loop, run on its own.
RECURSIVE RingOutput(_, _, _, _)
RingOutput(buffer, i, damping, n) ==
    IF n = 0 THEN <<>>
    ELSE <<buffer[i + 1]>> \o
         (IF n = 1 THEN <<>>
          ELSE RingOutput(FeedbackUpdate(buffer, i, damping),
                          (i + 1) % Len(buffer), damping, n - 1))

\* What a standalone _vibrate call with the arguments key produces
\* (for a key whose delay line has at least one cell).
StandaloneVibrate(key) ==
    PostProcess(RingOutput(
        burst_generator(DelayLineLength(SAMPLING_RATE, key[1]), noise).value,
        0, ResolveDamping(SubSeq(key, 3, Len(key))),
        get_num_samples(key[2], SAMPLING_RATE)))

Failed(r) == r.outcome \notin {"ok", "none"}

\* C16: a failed call leaves no wrong cache entry. A _vibrate or
\* strum_strings call that ended in an error has no entry under its key, and
\* the same call made again fails again; every entry that enters the
\* per-string cache, those stored by a strum that fails at a later pitch
\* included, is the complete waveform a standalone _vibrate call produces.
C16_FailedCallLeavesNoEntry ==
    /\ []((Failed(ret) /\ ret.op = "vibrate") => ret.args \notin DOMAIN vcache)
    /\ []((Failed(ret) /\ ret.op = "strum") => ret.args \notin DOMAIN scache)
    /\ [][\A k \in DOMAIN vcache' :
             k \notin DOMAIN vcache =>
                 /\ StandaloneVibrate(k).outcome = "ok"
                 /\ vcache'[k] = StandaloneVibrate(k).value]_vars
    /\ [][(Failed(ret) /\ ret'.op = ret.op /\ ret'.args = ret.args)
              => ret'.outcome = ret.outcome]_vars

\* C16 witness: a strum has failed at its second pitch, the first pitch's
\* waveform being in the per-string cache.
C16_Witness ==
    /\ ncalls = 1
    /\ ret.op = "strum"
    /\ Failed(ret)
    /\ Len(StrumPitches(ret.args)) = 2
    /\ \E k \in DOMAIN vcache : k[1] = StrumPitches(ret.args)[1]

====
